---- MODULE Spec2Model ----
(***************************************************************************)
(* The batching watchdog of SHIELD-Data: class Handler.  File events are   *)
(* collected in pending_changes by on_any_event, which cancels and        *)
(* restarts a threading.Timer of BATCH_DELAY seconds; when the timer       *)
(* elapses its thread runs process_batch, which resolves the run metadata  *)
(* (parse_run_info), renders the request text (create_pr_content), drives  *)
(* git and gh, and finally moves pending_changes into session_files.       *)
(*                                                                         *)
(* Two variants of Handler exist in the repository.  They share           *)
(* on_any_event and process_batch and differ in parse_run_info and        *)
(* create_pr_content:                                                      *)
(*   "strict"  : src/mwe.py  (parse_run_info raises on every unmet        *)
(*               precondition, create_pr_content needs pr_template.md)     *)
(*   "lenient" : src/main.py (parse_run_info always returns)               *)
(*                                                                         *)
(* Threads: the observer thread delivers events one at a time and runs    *)
(* on_any_event for each in one step; every Timer is a thread of its own   *)
(* (pc[i] is the position of the i-th timer's thread, first in Timer.run,  *)
(* then in process_batch).  Time is discrete; a step that only computes    *)
(* takes no time, a step that waits on a file, git or gh may take any.     *)
(***************************************************************************)
EXTENDS Integers, Sequences, FiniteSets, TLC

\* ------------------------------------------------------------------ bounds

\* src/mwe.py:16  BATCH_DELAY = 3
BATCH_DELAY == 3

\* the number of file events the observer delivers in one run of the model
MaxEvents == 2

\* the number of git workflows the CSV watcher begins for one file name
\* before the model stops counting
MaxRuns == 2

\* Python's None (src/mwe.py:21-23)
None == 0

\* ------------------------------------------------------------ path strings
\* A string is a sequence of characters, a relative path a sequence of
\* segments (pathlib.Path.parts).

Digits == {"0","1","2","3","4","5","6","7","8","9"}

\* the literal "run_metadata.json" of parse_run_info
ManifestName == <<"r","u","n","_","m","e","t","a","d","a","t","a",".","j","s","o","n">>

DateSeg == <<"0","1",".","1","5">>
RunSeg  == <<"r","u","n","_","3","_","0","9","h","3","0">>
DataSeg == <<"p","r","e","s","s","u","r","e","_","g","a","u","g","e","_","d","a","t","a",".","c","s","v">>
NoteSeg == <<"n","o","t","e","s",".","t","x","t">>
OtherRunSeg == <<"r","u","n","_","4","_","1","0","h","0","0">>
BackupSeg == ManifestName \o <<".","b","a","k">>
DatedSeg == <<"0","9",".","3","0","_","l","o","g",".","c","s","v">>

\* The relative paths the watched tree can report, by number.  The last
\* four hold the manifest's name in a longer file name, hold it as the name
\* of a directory, are the manifest of another run, and are a file of the
\* first run whose name begins like a date.
PathOf == << <<DateSeg, RunSeg, DataSeg>>,
             <<DateSeg, RunSeg, ManifestName>>,
             <<NoteSeg>>,
             <<DateSeg, RunSeg, BackupSeg>>,
             <<ManifestName, DataSeg>>,
             <<DateSeg, OtherRunSeg, ManifestName>>,
             <<DateSeg, RunSeg, DatedSeg>> >>

Paths == DOMAIN PathOf

\* the paths whose events the observer delivers while the threads are followed
Reported == {1, 2, 3}

RECURSIVE JoinFrom(_, _)
JoinFrom(parts, k) ==
  IF k > Len(parts) THEN <<>>
  ELSE IF k = Len(parts) THEN parts[k]
  ELSE parts[k] \o <<"/">> \o JoinFrom(parts, k + 1)

\* str(rel_path): the segments joined by the separator
PathStr(parts) == JoinFrom(parts, 1)

\* Python's  needle in hay  on strings
IsSubstring(needle, hay) ==
  \E k \in 0..(Len(hay) - Len(needle)) :
     \A j \in 1..Len(needle) : hay[k + j] = needle[j]

\* re.match(r"\d{2}\.\d{2}", part): a match at the start of part
MatchDate(part) ==
  /\ Len(part) >= 5
  /\ part[1] \in Digits /\ part[2] \in Digits
  /\ part[3] = "."
  /\ part[4] \in Digits /\ part[5] \in Digits

\* re.match(r"run_\d+_\d{2}h\d{2}", part)
MatchRun(part) ==
  /\ Len(part) >= 11
  /\ part[1] = "r" /\ part[2] = "u" /\ part[3] = "n" /\ part[4] = "_"
  /\ \E n \in 1..(Len(part) - 10) :
        /\ \A j \in 5..(4 + n) : part[j] \in Digits
        /\ part[5 + n] = "_"
        /\ part[6 + n] \in Digits /\ part[7 + n] \in Digits
        /\ part[8 + n] = "h"
        /\ part[9 + n] \in Digits /\ part[10 + n] \in Digits

\* The loop  for part in path_parts:  if date ... elif run ...
\* leaves the last matching segment in each of date_folder and run_folder
\* (index of the segment, None when no segment matched).
RECURSIVE ScanParts(_, _, _, _)
ScanParts(parts, k, date, run) ==
  IF k > Len(parts) THEN [date_folder |-> date, run_folder |-> run]
  ELSE IF MatchDate(parts[k]) THEN ScanParts(parts, k + 1, k, run)
  ELSE IF MatchRun(parts[k]) THEN ScanParts(parts, k + 1, date, k)
  ELSE ScanParts(parts, k + 1, date, run)

\* computed once per path
Structure == [p \in Paths |-> ScanParts(PathOf[p], 1, None, None)]

\* "run_metadata.json" in file_path
NamesManifest == [p \in Paths |-> IsSubstring(ManifestName, PathStr(PathOf[p]))]

ManifestCandidates(file_paths) == {p \in file_paths : NamesManifest[p]}

\* ------------------------------------------------------- manifest contents
\* What  results/<path>  holds when parse_run_info looks at it.

required_fields == <<"run_type", "date", "furnace_setpoint">>

FieldSet == {required_fields[k] : k \in DOMAIN required_fields}

Absent    == [kind |-> "absent",      fields |-> {}]
BadJson   == [kind |-> "invalid",     fields |-> {}]
NoRunInfo == [kind |-> "no_run_info", fields |-> {}]
RunInfo(fs) == [kind |-> "run_info", fields |-> fs]

Written == {BadJson, NoRunInfo} \cup {RunInfo(fs) : fs \in SUBSET FieldSet}
Contents == {Absent} \cup Written

Complete(c) == c.kind = "run_info" /\ c.fields = FieldSet

\* a loop that reports the first required field, whichever is absent
FirstMissingMisnamed(fs) == required_fields[1]

\* for field in required_fields: if field not in run_info: raise
FirstMissing(fs) ==
  LET k == CHOOSE k \in DOMAIN required_fields :
             /\ required_fields[k] \notin fs
             /\ \A j \in 1..(k - 1) : required_fields[j] \in fs
  IN required_fields[k]

\* ---------------------------------------------------------- parse_run_info
\* first = the path the iteration of file_paths yields first (None for an
\* empty set), found = the first path of that iteration that names the
\* manifest (None when there is none), content = what that file holds.

Result(k, f) == [kind |-> k, field |-> f]

Raised(k, f) == [ok |-> FALSE, err |-> Result(k, f),
                 date_folder |-> None, run_folder |-> None, total_files |-> 0]

\* a result that counts up to the sample instead of counting the batch
ReturnedSample(first, file_paths) ==
  [ok |-> TRUE, err |-> Result("none", ""),
   date_folder |-> Structure[first].date_folder,
   run_folder |-> Structure[first].run_folder,
   total_files |-> first]

Returned(first, file_paths) ==
  [ok |-> TRUE, err |-> Result("none", ""),
   date_folder |-> Structure[first].date_folder,
   run_folder |-> Structure[first].run_folder,
   total_files |-> Cardinality(file_paths)]

\* parse_run_info without its first check, of metadata_path against None
parse_run_info_unlocated(file_paths, first, found, content) ==
  IF content.kind = "absent" THEN Raised("ManifestNotOnDisk", "")
  ELSE IF content.kind = "invalid" THEN Raised("ManifestInvalid", "")
  ELSE IF content.kind = "no_run_info" THEN Raised("ManifestIncomplete", "run_info")
  ELSE IF content.fields # FieldSet
       THEN Raised("ManifestIncomplete", FirstMissing(content.fields))
  ELSE IF Structure[first].date_folder = None THEN Raised("StructureUnrecognized", "date")
  ELSE IF Structure[first].run_folder = None THEN Raised("StructureUnrecognized", "run")
  ELSE Returned(first, file_paths)

\* parse_run_info with the folder structure examined before the manifest
parse_run_info_structure_first(file_paths, first, found, content) ==
  IF Structure[first].date_folder = None THEN Raised("StructureUnrecognized", "date")
  ELSE IF Structure[first].run_folder = None THEN Raised("StructureUnrecognized", "run")
  ELSE parse_run_info_unlocated(file_paths, first, found, content)

parse_run_info_strict(file_paths, first, found, content) ==
  IF found = None THEN Raised("ManifestMissing", "")
  ELSE IF content.kind = "absent" THEN Raised("ManifestNotOnDisk", "")
  ELSE IF content.kind = "invalid" THEN Raised("ManifestInvalid", "")
  ELSE IF content.kind = "no_run_info" THEN Raised("ManifestIncomplete", "run_info")
  ELSE IF content.fields # FieldSet
       THEN Raised("ManifestIncomplete", FirstMissing(content.fields))
  ELSE IF Structure[first].date_folder = None THEN Raised("StructureUnrecognized", "date")
  ELSE IF Structure[first].run_folder = None THEN Raised("StructureUnrecognized", "run")
  ELSE Returned(first, file_paths)

parse_run_info_lenient(file_paths, first, found, content) ==
  IF first = None THEN Raised("StopIteration", "")
  ELSE Returned(first, file_paths)

\* the iteration order of a Python set is not chosen by the program
FirstOf(file_paths) == IF file_paths = {} THEN {None} ELSE file_paths

FoundOf(file_paths, first) ==
  IF ManifestCandidates(file_paths) = {} THEN {None}
  ELSE IF first \in ManifestCandidates(file_paths) THEN {first}
  ELSE ManifestCandidates(file_paths)

\* ------------------------------------------------------------------- state

VARIABLES
  variant,          \* which Handler runs: "strict" or "lenient", or which watcher
  followed,         \* whether the index and the working tree are followed
  pending_changes,  \* self.pending_changes
  session_files,    \* self.session_files
  current_branch,   \* self.current_branch: None or the unique id of the branch
  timer,            \* self.timer: None or the latest Timer
  nEvents,          \* file events delivered so far; event k starts Timer k
  gap,              \* time since the last file event (capped above BATCH_DELAY)
  gapAt,            \* gapAt[k]: how the gap before event k compares to BATCH_DELAY
  pc,               \* pc[i]: where Timer i's thread is
  rem,              \* rem[i]: time left of Timer i's wait
  batch,            \* batch[i]: the file_paths pass i handed to parse_run_info
  read,             \* read[i]: what pass i found in the manifest file
  out,              \* out[i]: how pass i ended
  ops,              \* ops[i]: the git and gh commands pass i has issued
  fires,            \* fires[i]: calls of process_batch by Timer i
  dirty,            \* the working tree holds content that is not in the index
  staged,           \* the index holds content that is not in HEAD
  requested,        \* the branches a pull request creation was issued for
  file_branches,    \* self.file_branches of a per-file watcher: file name -> branch
  assigned,         \* the branch each file was recorded under, by its path
  handling,         \* the last event a per-file or CSV watcher handled, and its commands
  processed_files,  \* self.processed_files of the CSV watcher: file names
  workflow_runs     \* how often the CSV watcher began its git workflow, by file name

vars == <<variant, followed, pending_changes, session_files, current_branch, timer,
          nEvents, gap, gapAt, pc, rem, batch, read, out, ops, fires,
          dirty, staged, requested, file_branches, assigned, handling,
          processed_files, workflow_runs>>

\* the fields of Handler
handler == <<pending_changes, session_files, current_branch, timer>>

\* the observer thread and the clock
arrivals == <<nEvents, gap, gapAt>>

\* what a pass keeps of its own
locals == <<batch, read, out, ops>>

\* the git repository the commands act on, and its remote
repo == <<dirty, staged, requested>>

\* the CSV watcher (CSVFileHandler)
csv == <<processed_files, workflow_runs>>

\* the per-file watchers (FileWatchdogHandler, FileHandler) and the CSV one
perfile == <<file_branches, assigned, handling, csv>>

\* no event handled yet
NoHandling == [event_type |-> "none", path |-> 0, branch |-> <<>>, ops |-> <<>>]

\* self.file_branches = {}
InitPerFileFields ==
  /\ file_branches = <<>>
  /\ assigned = <<>>
  /\ handling = NoHandling
  /\ processed_files = {}
  /\ workflow_runs = <<>>

Timers == 1..MaxEvents

EventKinds == {"created", "modified", "moved", "deleted"}

InitWith(v, f) ==
  /\ variant = v
  /\ followed = f
  /\ pending_changes = {}
  /\ session_files = {}
  /\ current_branch = None
  /\ timer = None
  /\ nEvents = 0
  /\ gap = BATCH_DELAY + 1
  /\ gapAt = [i \in Timers |-> "gt"]
  /\ pc = [i \in Timers |-> "unborn"]
  /\ rem = [i \in Timers |-> 0]
  /\ batch = [i \in Timers |-> {}]
  /\ read = [i \in Timers |-> Absent]
  /\ out = [i \in Timers |-> Result("none", "")]
  /\ ops = [i \in Timers |-> <<>>]
  /\ fires = [i \in Timers |-> 0]
  /\ dirty = FALSE
  /\ staged = FALSE
  /\ requested = {}
  /\ InitPerFileFields

Init == InitWith("strict", FALSE)

\* ------------------------------------------------------------ on_any_event
\* Run by the observer thread, one event at a time.  The body computes only
\* and takes no time; of the other threads only a Timer that is due at this
\* very moment can tell where inside the body the observer is, and Wake
\* before or after the event gives both outcomes of that race.

\* a gap against BATCH_DELAY
Compare(g) == IF g < BATCH_DELAY THEN "lt" ELSE IF g = BATCH_DELAY THEN "eq" ELSE "gt"

\* if event.is_directory: return
DirectoryEvent ==
  /\ UNCHANGED vars

\* self.pending_changes.add(str(rel_path)), for an event of any kind
AddPending(kind, p) == pending_changes \cup {p}

\* a cancel() that stops nothing
CancelLost(t) == pc

\* Timer.cancel() sets the Timer's finished event.  A thread still in
\* finished.wait() returns from it at once and ends without calling the
\* function; a thread past its check of finished is not affected.
Cancel(t) == [pc EXCEPT ![t] = IF pc[t] = "waiting" THEN "cancelled" ELSE pc[t]]

\* an event that starts its Timer and cancels none
CancelTimerSkipped == pc

\* if self.timer: self.timer.cancel()
CancelTimer == IF timer # None THEN Cancel(timer) ELSE pc

\* a Timer that is created and never started
StartTimerForgotten(t, threads) == threads

\* self.timer = threading.Timer(BATCH_DELAY, self.process_batch); start()
StartTimer(t, threads) == [threads EXCEPT ![t] = "waiting"]

\* The event reports a change of the file that git has not seen yet, or one
\* that leaves nothing to commit (the same content written again, or content
\* an earlier pass has already committed).
FileEvent(kind, p) ==
  /\ nEvents < MaxEvents
  /\ pending_changes' = AddPending(kind, p)
  /\ nEvents' = nEvents + 1
  /\ gapAt' = [gapAt EXCEPT ![nEvents + 1] = Compare(gap)]
  /\ gap' = 0
  /\ timer' = nEvents + 1
  /\ pc' = StartTimer(nEvents + 1, CancelTimer)
  /\ rem' = [i \in Timers |-> IF i = nEvents + 1 THEN BATCH_DELAY
                              ELSE IF pc'[i] = "waiting" THEN rem[i] ELSE 0]
  /\ \E changed \in (IF followed THEN BOOLEAN ELSE {FALSE}) : dirty' = (dirty \/ changed)
  /\ UNCHANGED <<variant, followed, perfile, session_files, current_branch, locals, fires,
                 staged, requested>>

\* --------------------------------------------------------------- Timer.run
\* self.finished.wait(self.interval)
\* if not self.finished.is_set(): self.function()

\* the wait timed out and finished was found unset
Wake(i) ==
  /\ pc[i] = "waiting"
  /\ rem[i] = 0
  /\ pc' = [pc EXCEPT ![i] = "woke"]
  /\ UNCHANGED <<variant, followed, perfile, handler, arrivals, rem, locals, fires, repo>>

\* Where a thread only computes: it is there for no time at all.
Computing == {"woke", "session", "begin", "update_session", "clear"}

Due(i) == pc[i] \in Computing \/ (pc[i] = "waiting" /\ rem[i] = 0)

\* One unit of time passes, while no thread has a step that takes no time.
Tick ==
  /\ \A i \in Timers : ~Due(i)
  /\ rem' = [i \in Timers |-> IF pc[i] = "waiting" THEN rem[i] - 1 ELSE rem[i]]
  /\ gap' = IF gap <= BATCH_DELAY THEN gap + 1 ELSE gap
  /\ UNCHANGED <<variant, followed, perfile, handler, nEvents, gapAt, pc, locals, fires, repo>>

\* ----------------------------------------------------------- process_batch
\* Run by a Timer's thread.  No lock is taken anywhere in Handler, so the
\* statements of a pass interleave with the observer thread and with other
\* passes; the reads of files and the git and gh commands may take time.

Goto(i, where) == pc' = [pc EXCEPT ![i] = where]

Ends(i, k, f) == out' = [out EXCEPT ![i] = Result(k, f)]

\* a call of process_batch that does not look at pending_changes
InvokeUnguarded(i) ==
  /\ pc[i] = "woke"
  /\ fires' = [fires EXCEPT ![i] = fires[i] + 1]
  /\ Goto(i, "parse") /\ UNCHANGED out
  /\ UNCHANGED <<variant, followed, perfile, handler, arrivals, rem, batch, read, ops, repo>>

\* self.function(): the call of process_batch, and its first statement
\*   if not self.pending_changes: return
Invoke(i) ==
  /\ pc[i] = "woke"
  /\ fires' = [fires EXCEPT ![i] = fires[i] + 1]
  /\ IF pending_changes = {}
       THEN Goto(i, "done") /\ Ends(i, "Empty", "")
       ELSE Goto(i, "parse") /\ UNCHANGED out
  /\ UNCHANGED <<variant, followed, perfile, handler, arrivals, rem, batch, read, ops, repo>>

parse_run_info(file_paths, first, found, content) ==
  IF variant = "strict"
    THEN parse_run_info_strict(file_paths, first, found, content)
    ELSE parse_run_info_lenient(file_paths, first, found, content)

\* create_pr_content(run_info): the strict variant raises FileNotFoundError
\* when pr_template.md is not in the working directory
create_pr_content(template_exists) ==
  IF variant = "strict" /\ ~template_exists
    THEN Result("TemplateMissing", "")
    ELSE Result("none", "")

\* the value the manifest's run_info holds for a field
ValueOf(field) == <<"run_info", field>>

\* metadata.get(key, "Unknown") on the parsed manifest: its top level holds
\* run_info and none of the fields of run_info
TopLevel(content) == IF content.kind = "run_info" THEN {"run_info"} ELSE {}

MetadataGet(content, key) == IF key \in TopLevel(content) THEN <<key>> ELSE <<"Unknown">>

\* title = f"New run data: {...}; {...}; {...} K", as the list of its pieces:
\* the strict Handler fills it from run_info, the lenient one from the top
\* level of the manifest and from date_folder
create_pr_title(content, date_folder) ==
  IF variant = "strict"
    THEN << <<"New run data: ">>, ValueOf("run_type"), <<"; ">>, ValueOf("date"),
            <<"; ">>, ValueOf("furnace_setpoint"), <<" K">> >>
    ELSE << <<"New run data: ">>, MetadataGet(content, "run_type"), <<"; ">>, date_folder,
            <<"; ">>, MetadataGet(content, "furnace_setpoint"), <<" K">> >>

\* An exception of either call is caught nowhere: it ends the pass and the
\* Timer's thread, and nothing else.
Resolved(i, r, rendered) ==
  IF ~r.ok
    THEN /\ Goto(i, "raised")
         /\ out' = [out EXCEPT ![i] = r.err]
         /\ UNCHANGED batch
    ELSE IF rendered.kind # "none"
    THEN /\ Goto(i, "raised")
         /\ out' = [out EXCEPT ![i] = rendered]
         /\ UNCHANGED batch
    ELSE /\ Goto(i, "session")
         /\ batch' = [batch EXCEPT ![i] = pending_changes]
         /\ UNCHANGED out

\* a pass whose failed resolution drops the batch it could not resolve
ParseWithBatchDropped(i, first, found, content, template_exists) ==
  /\ pc[i] = "parse"
  /\ first \in FirstOf(pending_changes)
  /\ found \in FoundOf(pending_changes, first)
  /\ content \in (IF found = None THEN {Absent} ELSE Contents)
  /\ read' = [read EXCEPT ![i] = content]
  /\ Resolved(i, parse_run_info(pending_changes, first, found, content),
              create_pr_content(template_exists))
  /\ pending_changes' =
       IF parse_run_info(pending_changes, first, found, content).ok
         THEN pending_changes ELSE {}
  /\ UNCHANGED <<variant, followed, perfile, session_files, current_branch, timer,
                 arrivals, rem, ops, fires, repo>>

\* run_info = self.parse_run_info(self.pending_changes)
\* title, body = self.create_pr_content(run_info)
\* The set is iterated in an order the program does not choose, and the file
\* results/<found> holds whatever its writer has left there by now.
ParseWith(i, first, found, content, template_exists) ==
  /\ pc[i] = "parse"
  /\ first \in FirstOf(pending_changes)
  /\ found \in FoundOf(pending_changes, first)
  /\ content \in (IF found = None THEN {Absent} ELSE Contents)
  /\ read' = [read EXCEPT ![i] = content]
  /\ Resolved(i, parse_run_info(pending_changes, first, found, content),
              create_pr_content(template_exists))
  /\ UNCHANGED <<variant, followed, perfile, handler, arrivals, rem, ops, fires, repo>>

Parse(i) ==
  /\ pc[i] = "parse"
  /\ \E first \in FirstOf(pending_changes) :
       \E found \in FoundOf(pending_changes, first) :
         \E content \in Contents :
           \E template_exists \in BOOLEAN :
             ParseWith(i, first, found, content, template_exists)

\* if not self.current_branch:
SessionTest(i) ==
  /\ pc[i] = "session"
  /\ Goto(i, IF current_branch = None THEN "begin" ELSE "extend")
  /\ read' = [read EXCEPT ![i] = Absent]
  /\ UNCHANGED <<variant, followed, perfile, handler, arrivals, rem, batch, out, ops, fires, repo>>

\* unique_id = "".join(random.choices(ascii_lowercase + digits, k=7)): one
\* of 36^7 ids; the ids of two calls are taken to differ, pass i draws i
NewUniqueId(i) == i

\* self.current_branch = f"add_new_data_{unique_id}"
BeginSession(i) ==
  /\ pc[i] = "begin"
  /\ current_branch' = NewUniqueId(i)
  /\ Goto(i, "publish_new")
  /\ UNCHANGED <<variant, followed, perfile, pending_changes, session_files, timer,
                 arrivals, rem, locals, fires, repo>>

\* a new session that stages before its branch exists
NewBranchOpsStagedFirst == <<"checkout main", "add", "checkout -b", "diff --cached">>

NewBranchOps == <<"checkout main", "checkout -b", "add", "diff --cached">>
ExistingBranchOps == <<"checkout", "add", "diff --cached">>

\* what follows  if result.returncode != 0  in a new and in a continuing session
NewBranchCommit == <<"commit", "push", "pr create">>
ExistingBranchCommit == <<"commit", "push">>

\* the commands of a pass: each returns a status that the state of the
\* repository, of the network and of the remote decide
NewCommands == {"checkout main", "checkout -b", "add", "diff --cached",
                "commit", "push", "pr create"}
ExistingCommands == {"checkout", "add", "diff --cached", "commit", "push"}

\* subprocess.run(...).returncode: 0, or 1 for every other status
ExitCodes == {0, 1}

\* git add .  : on success the index takes all of the working tree
AfterAdd(returncode) ==
  [staged |-> IF returncode = 0 THEN staged \/ dirty ELSE staged,
   dirty  |-> IF returncode = 0 THEN FALSE ELSE dirty]

\* git diff --cached --quiet : 1 when the index differs from HEAD, else 0
DiffCachedQuiet(isStaged) == IF isStaged THEN 1 ELSE 0

\* Where the repository is followed the status of the diff is the one git
\* computes from the index; where it is not, it is the environment's.
Consistent(rc) ==
  followed => rc["diff --cached"] = DiffCachedQuiet(AfterAdd(rc["add"]).staged)

\* the test  if result.returncode != 0  inverted
HasChangesInverted(returncode) == returncode = 0

\* a pass that commits whatever the diff returned
HasChangesAlways(returncode) == TRUE

\* if result.returncode != 0:  # There are changes
HasChanges(returncode) == returncode # 0

\* git commit makes a commit when it succeeds, and only of staged content
Commits(rc) == rc["diff --cached"] # 0 /\ rc["commit"] = 0

\* the index after the pass: emptied by a commit
StagedAfter(rc, committing) ==
  AfterAdd(rc["add"]).staged /\ ~(committing /\ Commits(rc))

\* The statuses that leave a trace in the state: the diff's, which the
\* program tests; gh pr create's in the strict variant, which runs it with
\* check=True; those of add and commit where the repository is followed.
Decisive ==
  {"diff --cached"} \cup (IF variant = "strict" THEN {"pr create"} ELSE {})
                    \cup (IF followed THEN {"add", "commit"} ELSE {})

\* PublishNewWith(i, rc) and PublishUpdateWith(i, rc) hold of the same steps
\* for either status of a command that is not decisive: the steps of the
\* model are drawn with such a command returning 0.
Drawn(cmds) ==
  {[c \in cmds |-> IF c \in failing THEN 1 ELSE 0] :
     failing \in SUBSET (Decisive \cap cmds)}

\* the commands of a new session, returning rc; their exit codes are not
\* looked at, but for  diff --cached --quiet  and, in the strict variant,
\* gh pr create  run with check=True
PublishNewWith(i, rc) ==
  /\ pc[i] = "publish_new"
  /\ Consistent(rc)
  /\ dirty' = AfterAdd(rc["add"]).dirty
  /\ staged' = StagedAfter(rc, HasChanges(rc["diff --cached"]))
  /\ IF ~HasChanges(rc["diff --cached"])
       THEN /\ ops' = [ops EXCEPT ![i] = NewBranchOps]
            /\ Goto(i, "update_session") /\ Ends(i, "NoOpNoChanges", "")
            /\ UNCHANGED <<batch, requested>>
       ELSE /\ ops' = [ops EXCEPT ![i] = NewBranchOps \o NewBranchCommit]
            /\ requested' = requested \cup {current_branch}
            /\ IF variant = "strict" /\ rc["pr create"] # 0
                 THEN /\ Goto(i, "raised") /\ Ends(i, "RequestCreateFailed", "")
                      /\ batch' = [batch EXCEPT ![i] = {}]
                 ELSE /\ Goto(i, "update_session") /\ Ends(i, "Created", "")
                      /\ UNCHANGED batch
  /\ UNCHANGED <<variant, followed, perfile, handler, arrivals, rem, read, fires>>

PublishNew(i) ==
  /\ pc[i] = "publish_new"
  /\ \E rc \in Drawn(NewCommands) : PublishNewWith(i, rc)

\* the commands of a continuing session, returning rc
PublishUpdateWith(i, rc) ==
  /\ pc[i] = "extend"
  /\ Consistent(rc)
  /\ dirty' = AfterAdd(rc["add"]).dirty
  /\ staged' = StagedAfter(rc, HasChanges(rc["diff --cached"]))
  /\ IF ~HasChanges(rc["diff --cached"])
       THEN /\ ops' = [ops EXCEPT ![i] = ExistingBranchOps]
            /\ Ends(i, "NoOpNoChanges", "")
       ELSE /\ ops' = [ops EXCEPT ![i] = ExistingBranchOps \o ExistingBranchCommit]
            /\ Ends(i, "Updated", "")
  /\ Goto(i, "update_session")
  /\ UNCHANGED <<variant, followed, perfile, handler, arrivals, rem, batch, read, fires,
                 requested>>

PublishUpdate(i) ==
  /\ pc[i] = "extend"
  /\ \E rc \in Drawn(ExistingCommands) : PublishUpdateWith(i, rc)

\* self.session_files.update(self.pending_changes)
UpdateSession(i) ==
  /\ pc[i] = "update_session"
  /\ session_files' = session_files \cup pending_changes
  /\ Goto(i, "clear")
  /\ UNCHANGED <<variant, followed, perfile, pending_changes, current_branch, timer,
                 arrivals, rem, locals, fires, repo>>

\* self.pending_changes.clear(), and the return: the locals are gone
ClearPending(i) ==
  /\ pc[i] = "clear"
  /\ pending_changes' = {}
  /\ Goto(i, "done")
  /\ batch' = [batch EXCEPT ![i] = {}]
  /\ UNCHANGED <<variant, followed, perfile, session_files, current_branch, timer,
                 arrivals, rem, read, out, ops, fires, repo>>

\* ----------------------------------------------------------- specification

Next ==
  \/ DirectoryEvent
  \/ \E kind \in EventKinds, p \in Reported : FileEvent(kind, p)
  \/ Tick
  \/ \E i \in Timers : Wake(i)
  \/ \E i \in Timers : Invoke(i)
  \/ \E i \in Timers : Parse(i)
  \/ \E i \in Timers : SessionTest(i)
  \/ \E i \in Timers : BeginSession(i)
  \/ \E i \in Timers : PublishNew(i)
  \/ \E i \in Timers : PublishUpdate(i)
  \/ \E i \in Timers : UpdateSession(i)
  \/ \E i \in Timers : ClearPending(i)

Spec == Init /\ [][Next]_vars

\* the lenient Handler of src/main.py, same threads and same events
InitLenient == InitWith("lenient", FALSE)

SpecLenient == InitLenient /\ [][Next]_vars

\* the strict Handler on a repository whose index and working tree are
\* followed: the diff returns what git computes
InitRepo == InitWith("strict", TRUE)

SpecRepo == InitRepo /\ [][Next]_vars

\* parse_run_info and create_pr_content on their own, for either Handler: a
\* burst of events has left file_paths in pending_changes, the last Timer
\* of the burst has fired, and its pass is about to resolve the batch.  The
\* batch is any non-empty set of the paths of PathOf.
InitResolver ==
  /\ variant \in {"strict", "lenient"}
  /\ followed = FALSE
  /\ pending_changes \in (SUBSET Paths) \ {{}}
  /\ session_files = {}
  /\ current_branch = None
  /\ timer = MaxEvents
  /\ nEvents = MaxEvents
  /\ gap = BATCH_DELAY
  /\ gapAt = [i \in Timers |-> IF i = 1 THEN "gt" ELSE "lt"]
  /\ pc = [i \in Timers |-> IF i = MaxEvents THEN "parse" ELSE "cancelled"]
  /\ rem = [i \in Timers |-> 0]
  /\ batch = [i \in Timers |-> {}]
  /\ read = [i \in Timers |-> Absent]
  /\ out = [i \in Timers |-> Result("none", "")]
  /\ ops = [i \in Timers |-> <<>>]
  /\ fires = [i \in Timers |-> IF i = MaxEvents THEN 1 ELSE 0]
  /\ dirty = FALSE
  /\ staged = FALSE
  /\ requested = {}
  /\ InitPerFileFields

NextResolver == \E i \in Timers : Parse(i)

SpecResolver == InitResolver /\ [][NextResolver]_vars

\* ------------------------------------------------------- per-file watchers
\* FileWatchdogHandler (src/file_monitor.py) and FileHandler
\* (src/simple_watchdog.py) give every file a branch of its own and a pull
\* request.  The observer thread runs on_any_event for one event at a time
\* and the handler returns only when its commands have run, so each event is
\* one step.  variant names the watcher: "file_monitor" or "simple_watchdog".

Letters == {"a","b","c","d","e","f","g","h","i","j","k","l","m",
            "n","o","p","q","r","s","t","u","v","w","x","y","z"}

XCsv == <<"x",".","c","s","v">>
XDashCsv == <<"x","-","c","s","v">>
XSpaceCsv == <<"x"," ",".","c","s","v">>
YCsv == <<"y",".","c","s","v">>

\* The files of the watched tree (it is watched recursively), by number, as
\* paths relative to results/: two of one name in two directories, two whose
\* names differ in a character the branch name drops or replaces, and one
\* that shares nothing with the others.
WatchedFileOf == << <<<<"a">>, XCsv>>, <<<<"b">>, XCsv>>, <<XDashCsv>>,
                    <<XSpaceCsv>>, <<YCsv>> >>
WatchedFiles == DOMAIN WatchedFileOf

\* file_path.name
FileName(p) == WatchedFileOf[p][Len(WatchedFileOf[p])]

\* c.isalnum(), for the characters of the names above
IsAlnum(c) == c \in Letters \cup Digits

\* "".join(c for c in file_name if c.isalnum() or c in ".-_")
RECURSIVE KeepSafe(_)
KeepSafe(str) ==
  IF str = <<>> THEN <<>>
  ELSE IF IsAlnum(Head(str)) \/ Head(str) \in {".", "-", "_"}
       THEN <<Head(str)>> \o KeepSafe(Tail(str))
       ELSE KeepSafe(Tail(str))

\* str.replace(".", "-")
ReplaceDots(str) == [k \in 1..Len(str) |-> IF str[k] = "." THEN "-" ELSE str[k]]

safe_name(file_name) == ReplaceDots(KeepSafe(file_name))

\* branch_name = f"add-{safe_name}"
branch_name(file_name) == <<"a","d","d","-">> \o safe_name(file_name)

\* the commands run_git runs with check=True, and gh pr create: a non-zero
\* status of one of them raises CalledProcessError
NewFileChecked == {"checkout main", "checkout -b", "add", "commit", "push", "pr create"}

\* The statuses of the commands of the new-file workflow.  The workflow
\* ends at the first checked command that fails, so the statuses with at
\* most one failing command give every run of it.
NewFileStatuses ==
  {rc \in [NewFileChecked -> ExitCodes] :
     Cardinality({c \in NewFileChecked : rc[c] # 0}) <= 1}

UpdateStatuses == [ExistingCommands -> ExitCodes]

\* run_git: the commands of cmds that run, up to the first one that raises
\* (a command outside DOMAIN rc runs with check=False and never raises)
Raises(cmds, rc, k) == cmds[k] \in DOMAIN rc /\ rc[cmds[k]] # 0
Succeeds(cmds, rc) == \A k \in 1..Len(cmds) : ~Raises(cmds, rc, k)
Issued(cmds, rc) ==
  IF Succeeds(cmds, rc) THEN cmds
  ELSE SubSeq(cmds, 1, CHOOSE k \in 1..Len(cmds) :
                          /\ Raises(cmds, rc, k)
                          /\ \A j \in 1..(k - 1) : ~Raises(cmds, rc, j))

\* the git commands of create_new_branch_and_pr / create_new_file_branch
NewFileGit(v) ==
  IF v = "file_monitor"
    THEN <<"checkout main", "branch -D", "checkout -b", "add", "commit", "push">>
    ELSE <<"checkout main", "pull", "checkout -b", "add", "commit", "push">>

\* create_pull_request / create_pr: listed = the request list returned 0
\* and something other than "[]"; CalledProcessError is caught inside
create_pull_request(listed) ==
  IF listed THEN <<"pr list">> ELSE <<"pr list", "pr create">>

create_new_branch_and_pr(v, rc, listed) ==
  IF Succeeds(NewFileGit(v), rc)
    THEN NewFileGit(v) \o create_pull_request(listed)
    ELSE Issued(NewFileGit(v), rc)

\* FileWatchdogHandler.update_existing_branch (the per-file watcher): the
\* commands it issues for a file whose branch exists, given the status of
\*   git diff --cached --quiet   (if result.returncode == 0: return)
update_existing_branch(returncode) ==
  IF returncode = 0
    THEN <<"checkout", "add", "diff --cached">>
    ELSE <<"checkout", "add", "diff --cached", "commit", "push">>

\* dict[key] = value
Put(dict, key, value) ==
  [k \in DOMAIN dict \cup {key} |-> IF k = key THEN value ELSE dict[k]]

\* whether the mapping is stored: file_monitor stores it before the
\* workflow, simple_watchdog after the workflow has returned
Stored(v, rc) == v = "file_monitor" \/ Succeeds(NewFileGit(v), rc)

\* handle_new_file / process_file for a new file: what it leaves behind
handle_new_file(event_type, p, rc, listed) ==
  LET file_name == FileName(p)
      branch == branch_name(file_name)
  IN [file_branches |-> IF Stored(variant, rc)
                          THEN Put(file_branches, file_name, branch)
                          ELSE file_branches,
      assigned |-> IF Stored(variant, rc) THEN Put(assigned, p, branch) ELSE assigned,
      handling |-> [event_type |-> event_type, path |-> p, branch |-> branch,
                    ops |-> create_new_branch_and_pr(variant, rc, listed)]]

\* a modified event that is always taken for a new file
handle_file_update_as_new(p, rcUpdate, rc, listed) ==
  handle_new_file("modified", p, rc, listed)

\* handle_file_update / process_file with is_new=False
handle_file_update(p, rcUpdate, rc, listed) ==
  LET file_name == FileName(p) IN
  IF file_name \in DOMAIN file_branches
    THEN [file_branches |-> file_branches,
          assigned |-> assigned,
          handling |-> [event_type |-> "modified", path |-> p,
                        branch |-> file_branches[file_name],
                        ops |-> Issued(update_existing_branch(rcUpdate["diff --cached"]),
                                       [c \in ExistingCommands \ {"diff --cached"}
                                          |-> rcUpdate[c]])]]
    ELSE handle_new_file("modified", p, rc, listed)

\* the Handler's variables, which a per-file watcher does not have
batching == <<followed, handler, arrivals, pc, rem, locals, fires, repo>>

Leaves(result) ==
  /\ file_branches' = result.file_branches
  /\ assigned' = result.assigned
  /\ handling' = result.handling
  /\ UNCHANGED <<variant, batching, csv>>

\* on_any_event, created or moved: p is event.dest_path of a moved event
\* and event.src_path of a created one
NewFileEvent(event_type, p) ==
  /\ event_type \in {"created", "moved"}
  /\ \E rc \in NewFileStatuses, listed \in BOOLEAN :
        Leaves(handle_new_file(event_type, p, rc, listed))

\* all commands succeed
AllZero(cmds) == [c \in cmds |-> 0]

\* on_any_event, modified.  Only the commands of the workflow that runs have
\* a status to draw.
ModifiedEvent(p) ==
  IF FileName(p) \in DOMAIN file_branches
    THEN \E rcUpdate \in UpdateStatuses :
            Leaves(handle_file_update(p, rcUpdate, AllZero(NewFileChecked), FALSE))
    ELSE \E rc \in NewFileStatuses, listed \in BOOLEAN :
            Leaves(handle_file_update(p, AllZero(ExistingCommands), rc, listed))

\* on_any_event for a directory or for a deleted file: no branch is taken
IgnoredEvent ==
  /\ UNCHANGED vars

InitPerFile ==
  /\ variant \in {"file_monitor", "simple_watchdog"}
  /\ followed = FALSE
  /\ pending_changes = {}
  /\ session_files = {}
  /\ current_branch = None
  /\ timer = None
  /\ nEvents = 0
  /\ gap = BATCH_DELAY + 1
  /\ gapAt = [i \in Timers |-> "gt"]
  /\ pc = [i \in Timers |-> "unborn"]
  /\ rem = [i \in Timers |-> 0]
  /\ batch = [i \in Timers |-> {}]
  /\ read = [i \in Timers |-> Absent]
  /\ out = [i \in Timers |-> Result("none", "")]
  /\ ops = [i \in Timers |-> <<>>]
  /\ fires = [i \in Timers |-> 0]
  /\ dirty = FALSE
  /\ staged = FALSE
  /\ requested = {}
  /\ InitPerFileFields

NextPerFile ==
  \/ \E event_type \in {"created", "moved"}, p \in WatchedFiles : NewFileEvent(event_type, p)
  \/ \E p \in WatchedFiles : ModifiedEvent(p)
  \/ IgnoredEvent

SpecPerFile == InitPerFile /\ [][NextPerFile]_vars


\* ------------------------------------------------------------- CSV watcher
\* CSVFileHandler (src/improved_watchdog.py) commits every new CSV file to
\* the one branch BRANCH_NAME.  It overrides on_created and on_moved only;
\* the observer thread runs them for one event at a time.

YUpperCsv == <<"y",".","C","S","V">>
XCsvBak == XCsv \o <<".","b","a","k">>

\* The files of the watched tree, by number: two of one name in two
\* directories, one with an upper-case suffix, and two that are no CSV files.
CsvFileOf == << <<<<"a">>, XCsv>>, <<<<"b">>, XCsv>>, <<YUpperCsv>>,
                <<NoteSeg>>, <<XCsvBak>> >>
CsvFiles == DOMAIN CsvFileOf

\* file_path.name
CsvName(p) == CsvFileOf[p][Len(CsvFileOf[p])]

\* pathlib's suffix: the name from its last dot on, if that dot is not the
\* first character
Dots(str) == {k \in 2..Len(str) : str[k] = "."}
LastDot(str) == CHOOSE k \in Dots(str) : \A j \in Dots(str) : j <= k
Suffix(str) == IF Dots(str) = {} THEN <<>> ELSE SubSeq(str, LastDot(str), Len(str))

\* str.lower(), for the characters of the names above
LowerChar(c) ==
  CASE c = "C" -> "c" [] c = "S" -> "s" [] c = "V" -> "v" [] OTHER -> c
Lower(str) == [k \in 1..Len(str) |-> LowerChar(str[k])]

\* if file_path.suffix.lower() == ".csv"
IsCsv(p) == Lower(Suffix(CsvName(p))) = <<".","c","s","v">>

\* BRANCH_NAME = "auto-csv-update"
BRANCH_NAME == <<"a","u","t","o","-","c","s","v","-","u","p","d","a","t","e">>

\* ensure_branch_exists: exists = BRANCH_NAME is in the output of
\* git branch --list; a CalledProcessError of a checkout is caught here
ensure_branch_exists(exists, rc) ==
  IF ~exists THEN <<"branch --list", "checkout -b">>
  ELSE IF rc["checkout"] # 0 THEN <<"branch --list", "checkout">>
  ELSE <<"branch --list", "checkout", "pull">>

\* the git workflow of process_csv_file, from ensure_branch_exists on; the
\* first failing add, commit or push ends it in the except clause
csv_workflow(exists, rc, listed) ==
  ensure_branch_exists(exists, rc) \o
    (IF rc["add"] # 0 THEN <<"add">>
     ELSE IF rc["diff --cached"] = 0 THEN <<"add", "diff --cached">>
     ELSE IF rc["commit"] # 0 THEN <<"add", "diff --cached", "commit">>
     ELSE IF rc["push"] # 0 THEN <<"add", "diff --cached", "commit", "push">>
     ELSE <<"add", "diff --cached", "commit", "push">> \o create_pull_request(listed))

\* the calls of the workflow counted so far for a file name
RunsOf(file_name) ==
  IF file_name \in DOMAIN workflow_runs THEN workflow_runs[file_name] ELSE 0

\* a process_csv_file that does not look at processed_files
process_csv_file_again(event_type, p, exists, rc, listed) ==
  [processed_files |-> processed_files \cup {CsvName(p)},
   workflow_runs |-> Put(workflow_runs, CsvName(p), RunsOf(CsvName(p)) + 1),
   handling |-> [event_type |-> event_type, path |-> p, branch |-> BRANCH_NAME,
                 ops |-> csv_workflow(exists, rc, listed)]]

\* process_csv_file: what it leaves behind
process_csv_file(event_type, p, exists, rc, listed) ==
  LET file_name == CsvName(p) IN
  IF file_name \in processed_files
    THEN [processed_files |-> processed_files,
          workflow_runs |-> workflow_runs,
          handling |-> [event_type |-> event_type, path |-> p, branch |-> BRANCH_NAME,
                        ops |-> <<>>]]
    ELSE [processed_files |-> processed_files \cup {file_name},
          workflow_runs |-> Put(workflow_runs, file_name, RunsOf(file_name) + 1),
          handling |-> [event_type |-> event_type, path |-> p, branch |-> BRANCH_NAME,
                        ops |-> csv_workflow(exists, rc, listed)]]

\* the fields CSVFileHandler does not have
NotCsv == <<variant, batching, file_branches, assigned>>

\* on_created and on_moved for a CSV file: p is event.src_path of a created
\* event and event.dest_path of a moved one
CsvFileEvent(event_type, p) ==
  /\ event_type \in {"created", "moved"}
  /\ IsCsv(p)
  /\ RunsOf(CsvName(p)) < MaxRuns
  /\ \E exists \in BOOLEAN, rc \in UpdateStatuses, listed \in BOOLEAN :
        LET result == process_csv_file(event_type, p, exists, rc, listed)
        IN /\ processed_files' = result.processed_files
           /\ workflow_runs' = result.workflow_runs
           /\ handling' = result.handling
  /\ UNCHANGED NotCsv

\* on_created and on_moved for a file of another suffix: only the event is
\* taken
OtherFileEvent(event_type, p) ==
  /\ event_type \in {"created", "moved"}
  /\ ~IsCsv(p)
  /\ handling' = [event_type |-> event_type, path |-> p, branch |-> <<>>, ops |-> <<>>]
  /\ UNCHANGED <<NotCsv, csv>>

\* a directory event (if event.is_directory: return), and the modified and
\* deleted events, whose handlers CSVFileHandler does not define
CsvIgnoredEvent ==
  /\ UNCHANGED vars

InitCsv ==
  /\ variant = "csv"
  /\ followed = FALSE
  /\ pending_changes = {}
  /\ session_files = {}
  /\ current_branch = None
  /\ timer = None
  /\ nEvents = 0
  /\ gap = BATCH_DELAY + 1
  /\ gapAt = [i \in Timers |-> "gt"]
  /\ pc = [i \in Timers |-> "unborn"]
  /\ rem = [i \in Timers |-> 0]
  /\ batch = [i \in Timers |-> {}]
  /\ read = [i \in Timers |-> Absent]
  /\ out = [i \in Timers |-> Result("none", "")]
  /\ ops = [i \in Timers |-> <<>>]
  /\ fires = [i \in Timers |-> 0]
  /\ dirty = FALSE
  /\ staged = FALSE
  /\ requested = {}
  /\ InitPerFileFields

NextCsv ==
  \/ \E event_type \in {"created", "moved"}, p \in CsvFiles : CsvFileEvent(event_type, p)
  \/ \E event_type \in {"created", "moved"}, p \in CsvFiles : OtherFileEvent(event_type, p)
  \/ CsvIgnoredEvent

SpecCsv == InitCsv /\ [][NextCsv]_vars


\* ------------------------------------------------------------------ claims

InFlight == {"parse", "session", "begin", "publish_new", "extend",
             "update_session", "clear"}

\* the stream has paused for more than BATCH_DELAY after event i
PausedAfter(i) ==
  \/ i = nEvents /\ gap > BATCH_DELAY
  \/ i < nEvents /\ gapAt[i + 1] = "gt"

\* C1: debounce coalescing.  In a run of events whose gaps are all smaller
\* than BATCH_DELAY no Timer but the last one's calls process_batch (none
\* fires while the run is still arriving), no Timer calls it twice, and once
\* the stream has paused for more than BATCH_DELAY after the last event of
\* the run, that event's Timer has called it exactly once.
C1_DebounceCoalescing ==
  \A i \in 1..nEvents :
     /\ fires[i] <= 1
     /\ (i < nEvents /\ gapAt[i + 1] = "lt") => fires[i] = 0
     /\ PausedAfter(i) => fires[i] = 1

\* a burst of two events, 0 < gap < BATCH_DELAY, then quiet: one call
C1_Witness ==
  /\ nEvents = 2 /\ gapAt[2] = "lt" /\ gap > BATCH_DELAY
  /\ fires[1] = 0 /\ fires[2] = 1 /\ pc[1] = "cancelled"

\* C2 as claimed: an event that arrives BATCH_DELAY or more after event i
\* finds that event i's Timer has called process_batch, or is past its check
\* of finished and about to.
C2_GapAtLeastDelay ==
  \A i \in 1..nEvents :
     (i < nEvents /\ gapAt[i + 1] \in {"eq", "gt"}) => (fires[i] = 1 \/ pc[i] = "woke")

\* C2, amended: events separated by more than BATCH_DELAY each cause their
\* own call of process_batch (the event that arrives exactly BATCH_DELAY
\* after the one before races with that one's Timer and may cancel it).
C2_GapAboveDelay ==
  \A i \in 1..nEvents :
     (i < nEvents /\ gapAt[i + 1] = "gt") => (fires[i] = 1 /\ pc[i] # "cancelled")

\* two events more than BATCH_DELAY apart, two calls
C2_Witness ==
  /\ nEvents = 2 /\ gapAt[2] = "gt" /\ gap > BATCH_DELAY
  /\ fires[1] = 1 /\ fires[2] = 1

\* C3 as claimed: at most one execution of process_batch is in flight.
C3_OnePassInFlight ==
  Cardinality({i \in Timers : pc[i] \in InFlight}) <= 1

\* C4 as claimed: what a pass removes from pending_changes was part of the
\* batch it resolved (a path inserted between its reading of the batch and
\* its clear() is not cleared by it).
C4_NoEventLost ==
  [][\A i \in Timers :
        (pc[i] = "clear" /\ pc'[i] = "done") => pending_changes \subseteq batch[i]]_vars

\* C5 as claimed: once a newer Timer is armed the older one never calls
\* process_batch, so a Timer that calls it is the latest one armed.
C5_OldTimerNeverFires ==
  [][\A i \in Timers : (pc[i] = "woke" /\ pc'[i] # "woke") => timer = i]_vars

\* C6 as claimed: once set, current_branch is never changed nor reset.
C6_BranchStable ==
  [][current_branch # None => current_branch' = current_branch]_vars

\* C7 as claimed: session_files is the union of the batches the passes
\* processed (each pass adds exactly the batch it resolved and published),
\* and it only grows.
C7_SessionIsUnionOfBatches ==
  [][/\ session_files \subseteq session_files'
     /\ \A i \in Timers :
          (pc[i] = "update_session" /\ pc'[i] = "clear")
             => session_files' = session_files \cup batch[i]]_vars

\* the step in which pass i runs parse_run_info and create_pr_content
Parses(i) == pc[i] = "parse" /\ pc'[i] # "parse"

ManifestErrors == {"ManifestNotOnDisk", "ManifestInvalid", "ManifestIncomplete"}

\* C8: a pass over a batch with no manifest path ends with ManifestMissing:
\* only its own thread ends, it has issued no command, and pending_changes,
\* session_files and current_branch are as before.  A pass over a batch
\* that holds a manifest path never ends with ManifestMissing, and ends with
\* a failure about the manifest only if the file is absent, unparseable or
\* incomplete: with the manifest added and complete, it resolves.
C8_ManifestMissingFailsClosed ==
  [][\A i \in Timers : Parses(i) =>
        /\ ManifestCandidates(pending_changes) = {} =>
             /\ pc'[i] = "raised"
             /\ out'[i] = Result("ManifestMissing", "")
             /\ ops'[i] = <<>>
             /\ \A j \in Timers \ {i} : pc'[j] = pc[j]
             /\ UNCHANGED <<pending_changes, session_files, current_branch>>
        /\ ManifestCandidates(pending_changes) # {} =>
             /\ out'[i].kind # "ManifestMissing"
             /\ out'[i].kind \in ManifestErrors => ~Complete(read'[i])
             /\ (Complete(read'[i]) /\ pc'[i] = "raised") =>
                   out'[i].kind \in {"StructureUnrecognized", "TemplateMissing"}]_vars

\* pass 1 failed for want of the manifest, the manifest's event followed,
\* and pass 2 has resolved the batch of both
C8_Witness ==
  /\ pc[1] = "raised" /\ out[1].kind = "ManifestMissing"
  /\ pc[2] \in {"session", "begin", "extend", "publish_new"}
  /\ batch[2] = {1, 2}
  /\ ops[1] = <<>>

\* C9: when the manifest read by a pass has no run_info, or a run_info that
\* lacks a required field, the pass ends with ManifestIncomplete naming
\* run_info, or naming a required field that is absent, and
\* pending_changes is left as it was.
C9_MissingRequiredField ==
  [][\A i \in Timers : Parses(i) =>
        /\ read'[i].kind = "no_run_info" =>
             /\ pc'[i] = "raised"
             /\ out'[i] = Result("ManifestIncomplete", "run_info")
             /\ pending_changes' = pending_changes
        /\ (read'[i].kind = "run_info" /\ read'[i].fields # FieldSet) =>
             /\ pc'[i] = "raised"
             /\ out'[i].kind = "ManifestIncomplete"
             /\ out'[i].field \in FieldSet \ read'[i].fields
             /\ pending_changes' = pending_changes]_vars

\* a manifest with run_type and date and no furnace_setpoint
C9_Witness ==
  \E i \in Timers :
     /\ pc[i] = "raised"
     /\ read[i] = RunInfo({"run_type", "date"})
     /\ out[i] = Result("ManifestIncomplete", "furnace_setpoint")
     /\ pending_changes # {}

Structured(p) == Structure[p].date_folder # None /\ Structure[p].run_folder # None

\* C10 as claimed: parse_run_info returns a value only if a manifest path
\* was in the batch, the file existed, parsed and held run_info with every
\* required field, and a date and a run segment were found; otherwise the
\* pass issues no command (a pass reaches "session", and from there its
\* commands, only with the value parse_run_info returned).
C10_RunMetadataInvariant ==
  \A i \in Timers :
     pc[i] = "session" =>
        /\ ManifestCandidates(batch[i]) # {}
        /\ Complete(read[i])
        /\ \E p \in batch[i] : Structured(p)

\* ------------------------------------------------- claims on publishing

Range(seq) == {seq[k] : k \in DOMAIN seq}

\* the step in which pass i runs the commands of a new session, and the
\* step in which it runs those of a continuing one
PublishesNew(i) == pc[i] = "publish_new" /\ pc'[i] # "publish_new"
PublishesUpdate(i) == pc[i] = "extend" /\ pc'[i] # "extend"

\* the commands of ops that returned a non-zero status in rc
FailedOf(among, issued, rc) == {c \in among \cap Range(issued) : rc[c] # 0}

\* C11 as claimed: a pass in which a checkout, add, commit or push command
\* returns a non-zero status ends as Failed, and does not go on to
\* session_files.update and pending_changes.clear(), so that the batch is
\* still pending at the next firing.
C11_PublishFailurePreservesBatch ==
  [][\A i \in Timers :
       /\ PublishesNew(i) =>
            \A rc \in [NewCommands -> ExitCodes] :
              (/\ PublishNewWith(i, rc)
               /\ FailedOf({"checkout main", "checkout -b", "add", "commit", "push"},
                           ops'[i], rc) # {})
                 => (out'[i].kind = "Failed" /\ pc'[i] = "raised")
       /\ PublishesUpdate(i) =>
            \A rc \in [ExistingCommands -> ExitCodes] :
              (/\ PublishUpdateWith(i, rc)
               /\ FailedOf({"checkout", "add", "commit", "push"}, ops'[i], rc) # {})
                 => (out'[i].kind = "Failed" /\ pc'[i] = "raised")]_vars

\* the orders of the spec: a new session, a continuing session
NewOrder == <<"checkout main", "checkout -b", "add", "diff --cached",
              "commit", "push", "pr create">>
ContinuingOrder == <<"checkout", "add", "diff --cached", "commit", "push">>

IsPrefix(a, b) == Len(a) <= Len(b) /\ \A k \in DOMAIN a : a[k] = b[k]

\* C12: the commands a pass has issued are, in this order, checkout of the
\* base and creation of the branch (new session) or checkout of the
\* existing branch, then stage, staged-diff check, commit, push, and for a
\* new session request-create last: a pass never issues one of them before
\* the ones that precede it in that order.
C12_OrderWithinPass ==
  \A i \in Timers :
     IsPrefix(ops[i], NewOrder) \/ IsPrefix(ops[i], ContinuingOrder)

\* a new session that committed, pushed and asked for the request, and a
\* continuing one that committed and pushed
C12_Witness ==
  /\ ops[1] = NewOrder
  /\ ops[2] = ContinuingOrder

\* C13 as claimed: when checkout, branch creation, staging or commit
\* returns a non-zero status, the pass issues none of the commands after it.
C13_FailureStopsThePass ==
  [][\A i \in Timers :
       /\ PublishesNew(i) =>
            \A rc \in [NewCommands -> ExitCodes] :
              PublishNewWith(i, rc) =>
                \A k \in DOMAIN ops'[i] :
                   (ops'[i][k] \in {"checkout main", "checkout -b", "add", "commit"}
                      /\ rc[ops'[i][k]] # 0) => k = Len(ops'[i])
       /\ PublishesUpdate(i) =>
            \A rc \in [ExistingCommands -> ExitCodes] :
              PublishUpdateWith(i, rc) =>
                \A k \in DOMAIN ops'[i] :
                   (ops'[i][k] \in {"checkout", "add", "commit"}
                      /\ rc[ops'[i][k]] # 0) => k = Len(ops'[i])]_vars

\* neither the working tree nor the index holds anything that is not in HEAD
Clean == ~dirty /\ ~staged

\* the exit statuses of a pass whose commit is made (checkout and push, which
\* leave no trace in the state, returning 0)
CommittingNew ==
  {rc \in [NewCommands -> ExitCodes] :
     Commits(rc) /\ \A c \in {"checkout main", "checkout -b", "push"} : rc[c] = 0}
CommittingExisting ==
  {rc \in [ExistingCommands -> ExitCodes] :
     Commits(rc) /\ \A c \in {"checkout", "push"} : rc[c] = 0}

\* C14: a pass that publishes while nothing has changed since the last
\* commit (an unchanged batch on an unchanged working tree) ends as
\* NoOpNoChanges, issues no commit and leaves the repository as it was; a
\* pass issues a commit only when there is content that is not in HEAD, and
\* a commit that is made leaves nothing staged, so that no later pass can
\* commit the same content again.
C14_IdempotentNoOp ==
  [][\A i \in Timers :
       /\ (PublishesNew(i) \/ PublishesUpdate(i)) =>
            /\ Clean => /\ out'[i].kind = "NoOpNoChanges"
                        /\ "commit" \notin Range(ops'[i])
                        /\ ~dirty' /\ ~staged'
            /\ "commit" \in Range(ops'[i]) => ~Clean
       /\ PublishesNew(i) =>
            \A rc \in CommittingNew : PublishNewWith(i, rc) => ~staged'
       /\ PublishesUpdate(i) =>
            \A rc \in CommittingExisting : PublishUpdateWith(i, rc) => ~staged']_vars

\* one pass has committed, the next finds the same files and nothing to commit
C14_Witness ==
  \E i, j \in Timers :
     /\ followed /\ i # j
     /\ pc[j] = "done" /\ out[j].kind = "Created"
     /\ pc[i] = "update_session" /\ out[i].kind = "NoOpNoChanges"
     /\ ops[i] = ExistingBranchOps
     /\ Clean
     /\ pending_changes # {} /\ pending_changes \subseteq session_files

\* the same convention in the per-file watcher
PerFileDiffConvention ==
  \A returncode \in ExitCodes :
    /\ returncode # 0 <=> "commit" \in Range(update_existing_branch(returncode))
    /\ returncode # 0 <=> "push" \in Range(update_existing_branch(returncode))
    /\ "pr create" \notin Range(update_existing_branch(returncode))

\* C15: a pass issues commit and push if and only if its staged-diff check
\* returned a non-zero status; when it returned 0 the pass issues neither
\* commit nor push nor request-create.
C15_DiffConvention ==
  [][/\ PerFileDiffConvention
     /\ \A i \in Timers :
       /\ PublishesNew(i) =>
            \A rc \in Drawn(NewCommands) :
              PublishNewWith(i, rc) =>
                /\ rc["diff --cached"] # 0 <=> "commit" \in Range(ops'[i])
                /\ rc["diff --cached"] # 0 <=> "push" \in Range(ops'[i])
                /\ rc["diff --cached"] = 0 => "pr create" \notin Range(ops'[i])
       /\ PublishesUpdate(i) =>
            \A rc \in Drawn(ExistingCommands) :
              PublishUpdateWith(i, rc) =>
                /\ rc["diff --cached"] # 0 <=> "commit" \in Range(ops'[i])
                /\ rc["diff --cached"] # 0 <=> "push" \in Range(ops'[i])
                /\ "pr create" \notin Range(ops'[i])]_vars

\* a first pass whose diff returned 0 and a second whose diff returned 1
C15_Witness ==
  \E i, j \in Timers :
     /\ pc[j] = "done" /\ out[j].kind = "NoOpNoChanges" /\ ops[j] = NewBranchOps
     /\ pc[i] = "update_session" /\ out[i].kind = "Updated"
     /\ ops[i] = ExistingBranchOps \o ExistingBranchCommit

\* C16: a pass that issues a request-create has first listed the requests of
\* the branch (and skips the creation when one exists).
C16_ListsBeforeCreating ==
  \A i \in Timers :
    \A m \in DOMAIN ops[i] :
      ops[i][m] = "pr create" => \E k \in 1..(m - 1) : ops[i][k] = "pr list"

\* pass i runs alone: no other pass is between its first and last statement
Alone(i) == \A j \in Timers \ {i} : pc[j] \notin InFlight

\* C17: whenever a pass commits and pushes to the session's branch, a
\* request-create for that branch has been issued, by this pass or an earlier
\* one (stated of passes that do not overlap another, where the session's
\* branch is the one of the pass that began it).
C17_PushedBranchHasRequest ==
  [][\A i \in Timers :
       /\ (PublishesNew(i) /\ Alone(i) /\ "push" \in Range(ops'[i]))
             => current_branch \in requested'
       /\ (PublishesUpdate(i) /\ Alone(i) /\ "push" \in Range(ops'[i]))
             => current_branch \in requested']_vars

\* C18: passes that run while a session is active create no branch and no
\* request, so over the life of the process at most one pass issues
\* checkout -b and at most one issues a request-create.
C18_OneRequestPerLifetime ==
  /\ Cardinality({i \in Timers : "checkout -b" \in Range(ops[i])}) <= 1
  /\ Cardinality({i \in Timers : "pr create" \in Range(ops[i])}) <= 1

\* C19: a file event inserts its path into pending_changes only when its
\* kind is created, modified or moved; a deleted event inserts nothing.
C19_CollectorFiltering ==
  [][\A kind \in EventKinds, p \in Paths :
       FileEvent(kind, p) =>
         pending_changes' = IF kind \in {"created", "modified", "moved"}
                              THEN pending_changes \cup {p}
                              ELSE pending_changes]_vars

Completed == {"Created", "Updated", "NoOpNoChanges"}

\* pass i returns from process_batch, or an exception ends it
Returns(i) == pc[i] \in InFlight /\ pc'[i] \in {"done", "raised"}

\* C20: a pass empties pending_changes exactly when it ends as Created,
\* Updated or NoOpNoChanges: a pass that reports one of these empties the
\* set as it returns, a pass that ends in any other way leaves the set as it
\* is, and a pass one of whose commands failed is not one that goes on to
\* empty it; a new-session pass that ends as NoOpNoChanges has set
\* current_branch and issued no commit.
C20_BatchClearing ==
  [][\A i \in Timers :
       /\ Returns(i) =>
            IF pc'[i] = "done" /\ out'[i].kind \in Completed
              THEN pending_changes' = {}
              ELSE pending_changes' = pending_changes
       /\ PublishesNew(i) =>
            /\ out'[i].kind = "NoOpNoChanges" =>
                 current_branch' # None /\ "commit" \notin Range(ops'[i])
            /\ \A rc \in [NewCommands -> ExitCodes] :
                 (/\ PublishNewWith(i, rc)
                  /\ FailedOf(NewCommands \ {"diff --cached"}, ops'[i], rc) # {})
                    => pc'[i] = "raised"
       /\ PublishesUpdate(i) =>
            \A rc \in [ExistingCommands -> ExitCodes] :
              (/\ PublishUpdateWith(i, rc)
               /\ FailedOf(ExistingCommands \ {"diff --cached"}, ops'[i], rc) # {})
                 => pc'[i] = "raised"]_vars

\* ------------------------------------------------- claims on the resolver

\* the final segment of the path is the manifest's name
IsManifest(p) == PathOf[p][Len(PathOf[p])] = ManifestName

\* C25: a batch none of whose paths ends in the segment run_metadata.json
\* yields ManifestMissing, whatever else its paths contain.
C25_ManifestByFinalSegment ==
  [][\A i \in Timers :
       (/\ Parses(i)
        /\ variant = "strict"
        /\ \A p \in pending_changes : ~IsManifest(p))
          => out'[i] = Result("ManifestMissing", "")]_vars

\* The conditions of a resolution in the order of the claim, each by itself:
\* manifest located, manifest exists, manifest parses, run_info with every
\* required field, date segment found, run segment found.
Conditions(file_paths, first, found, content) ==
  << found # None,
     content.kind # "absent",
     content.kind # "invalid",
     Complete(content),
     Structure[first].date_folder # None,
     Structure[first].run_folder # None >>

FailureOf == << "ManifestMissing", "ManifestNotOnDisk", "ManifestInvalid",
                "ManifestIncomplete", "StructureUnrecognized", "StructureUnrecognized" >>

\* the first condition that is not met (0 when all are)
FirstUnmet(conds) ==
  IF \A k \in DOMAIN conds : conds[k] THEN 0
  ELSE CHOOSE k \in DOMAIN conds : ~conds[k] /\ \A j \in 1..(k - 1) : conds[j]

\* C28: parse_run_info fails if and only if one of the six conditions is
\* unmet, and the failure it reports is that of the first unmet condition
\* in the order above (with the date folder before the run folder).
C28_FailurePriority ==
  [][\A i \in Timers :
       (Parses(i) /\ variant = "strict") =>
          \A first \in pending_changes, template_exists \in BOOLEAN :
           \A found \in FoundOf(pending_changes, first) :
            ParseWith(i, first, found, read'[i], template_exists) =>
              LET content == read'[i]
                  k == FirstUnmet(Conditions(pending_changes, first, found, content))
              IN IF k = 0
                   THEN out'[i].kind \in {"none", "TemplateMissing"}
                   ELSE /\ pc'[i] = "raised"
                        /\ out'[i].kind = FailureOf[k]
                        /\ k = 5 => out'[i].field = "date"
                        /\ k = 6 => out'[i].field = "run"]_vars

\* the manifest is there and complete, the sampled path has neither a date
\* nor a run segment: the failure is the date folder's
C28_Witness ==
  \E i \in Timers :
     /\ variant = "strict"
     /\ pc[i] = "raised"
     /\ out[i] = Result("StructureUnrecognized", "date")
     /\ Complete(read[i])
     /\ {2, 3} \subseteq pending_changes

\* the segment of path p at index k (date_folder = part, run_folder = part)
SegmentAt(p, k) == IF k = None THEN <<>> ELSE PathOf[p][k]

\* what parse_run_info gives its caller: the failure, or the two folder
\* names and the count
Outcome(file_paths, first, found, content) ==
  LET r == parse_run_info(file_paths, first, found, content)
  IN IF r.ok
       THEN <<"returned", SegmentAt(first, r.date_folder),
                          SegmentAt(first, r.run_folder), r.total_files>>
       ELSE <<"raised", r.err>>

Folders(p) == <<SegmentAt(p, Structure[p].date_folder),
                SegmentAt(p, Structure[p].run_folder)>>

\* every path of the batch yields the same date and run segment (or none)
SameFolders(file_paths) == \A p, q \in file_paths : Folders(p) = Folders(q)

\* C30 as claimed: for a fixed batch and fixed manifest content the result
\* of parse_run_info is the same whichever path is the sample and whichever
\* manifest-matching path is found first.
C30_ResolverDeterminism ==
  [][\A i \in Timers : Parses(i) =>
        \A first1 \in pending_changes, first2 \in pending_changes :
          \A found1 \in FoundOf(pending_changes, first1),
             found2 \in FoundOf(pending_changes, first2) :
            Outcome(pending_changes, first1, found1, read'[i])
              = Outcome(pending_changes, first2, found2, read'[i])]_vars

\* C30, amended: the same, for a batch whose paths all yield the same date
\* and run segment and of which at most one names the manifest.
C30_DeterminismWithinOneRun ==
  [][\A i \in Timers :
       (/\ Parses(i)
        /\ SameFolders(pending_changes)
        /\ Cardinality(ManifestCandidates(pending_changes)) <= 1) =>
          \A first1 \in pending_changes, first2 \in pending_changes :
            \A found1 \in FoundOf(pending_changes, first1),
               found2 \in FoundOf(pending_changes, first2) :
              Outcome(pending_changes, first1, found1, read'[i])
                = Outcome(pending_changes, first2, found2, read'[i])]_vars

\* a batch of two paths of one run has been resolved
C30_Witness ==
  \E i \in Timers :
     /\ variant = "strict"
     /\ pc[i] = "session"
     /\ batch[i] = {1, 2}
     /\ Complete(read[i])

\* the path lies under <date>/<run>/: a date folder, a run folder, a file
UnderRun(p) ==
  /\ Len(PathOf[p]) = 3
  /\ MatchDate(PathOf[p][1])
  /\ MatchRun(PathOf[p][2])

\* "New run data: <run_type>; <date>; <furnace_setpoint> K" of the manifest
TitleOfRun ==
  << <<"New run data: ">>, ValueOf("run_type"), <<"; ">>, ValueOf("date"),
     <<"; ">>, ValueOf("furnace_setpoint"), <<" K">> >>

\* C24 (resolution and title): for a batch whose paths all lie under
\* <date>/<run>/ and which holds the manifest, with a complete run_info,
\* parse_run_info returns the date segment, the run segment and the number
\* of paths, and the request is titled from run_type, date and
\* furnace_setpoint of the manifest.
C24_EndToEndResolution ==
  [][\A i \in Timers :
       (/\ Parses(i)
        /\ \A p \in pending_changes : UnderRun(p)
        /\ \E p \in pending_changes : IsManifest(p)
        /\ Complete(read'[i])) =>
          \A first \in pending_changes, template_exists \in BOOLEAN :
            \A found \in FoundOf(pending_changes, first) :
              ParseWith(i, first, found, read'[i], template_exists) =>
                LET r == parse_run_info(pending_changes, first, found, read'[i])
                IN /\ r.ok
                   /\ SegmentAt(first, r.date_folder) = PathOf[first][1]
                   /\ SegmentAt(first, r.run_folder) = PathOf[first][2]
                   /\ r.total_files = Cardinality(pending_changes)
                   /\ create_pr_title(read'[i], SegmentAt(first, r.date_folder))
                        = TitleOfRun]_vars

\* ------------------------------------------------- claims on the renderer

\* C22: a missing template does not end a pass: no pass is ended by the
\* renderer, a pass whose batch resolved goes on to its publish commands.
C22_RenderFailureDegrades ==
  \A i \in Timers : ~(pc[i] = "raised" /\ out[i].kind = "TemplateMissing")

\* C23: a pass that runs while a session is active does not call the
\* renderer, so it is never ended by a failure of the renderer.
C23_RendererOnlyForNewSessions ==
  [][\A i \in Timers :
       (Parses(i) /\ current_branch # None /\ Alone(i))
          => out'[i].kind # "TemplateMissing"]_vars

\* ------------------------------------------------- claims on recovery

\* C21: a pass that ends by an error ends alone and leaves the batch in
\* pending_changes, later events are collected and arm a Timer as before,
\* and the pass that retries after a failed publish publishes what the
\* failed one did not: it issues the request creation that failed.
C21_RetryAfterError ==
  [][/\ \A i \in Timers :
          (pc[i] \in InFlight /\ pc'[i] = "raised") =>
             /\ pending_changes' = pending_changes
             /\ \A j \in Timers \ {i} : pc'[j] = pc[j]
     /\ \A kind \in EventKinds, p \in Reported :
          FileEvent(kind, p) => (p \in pending_changes' /\ pc'[timer'] = "waiting")
     /\ \A j \in Timers :
          (/\ PublishesNew(j) \/ PublishesUpdate(j)
           /\ Alone(j)
           /\ \E i \in Timers : pc[i] = "raised" /\ out[i].kind = "RequestCreateFailed")
             => "pr create" \in Range(ops'[j])]_vars

\* ------------------------------------------------- claims on the timer

\* a Timer that is started and neither cancelled nor past its wait
Armed == {i \in Timers : pc[i] = "waiting"}

\* C29: at most one Timer is armed, and it is the one self.timer holds.
C29_OneTimerArmed ==
  /\ Cardinality(Armed) <= 1
  /\ \A i \in Armed : timer = i

\* an event has cancelled the Timer of the event before and armed its own
C29_Witness ==
  /\ nEvents = 2
  /\ pc[1] = "cancelled"
  /\ Armed = {2}
  /\ rem[2] = BATCH_DELAY

\* ------------------------------------------- claims on the per-file watchers

\* C26: in the per-file watchers every file has a branch of its own: two
\* distinct files, among them files of one base name in different
\* sub-directories and files whose names sanitize to the same string, are
\* never recorded under the same branch.
C26_OneBranchPerFile ==
  \A p, q \in DOMAIN assigned : p # q => assigned[p] # assigned[q]

\* whether seq begins with the commands of start
BeginsWith(seq, start) ==
  Len(seq) <= Len(start) /\ seq = SubSeq(start, 1, Len(seq))

\* the update of a recorded branch, at its longest
UpdateCommands == <<"checkout", "add", "diff --cached", "commit", "push">>

\* C27: in the per-file watchers a modified event for a file whose name is
\* in file_branches issues, on the branch recorded for it, only checkout,
\* add, the staged-diff check and then commit and push, never a branch or a
\* request creation, and records nothing; a modified event for a file whose
\* name is not there is handled as handle_new_file handles a new file.
C27_PerFileUpdates ==
  [][handling'.event_type = "modified" =>
       LET p == handling'.path
           file_name == FileName(p)
       IN IF file_name \in DOMAIN file_branches
            THEN /\ handling'.branch = file_branches[file_name]
                 /\ handling'.ops # <<>>
                 /\ BeginsWith(handling'.ops, UpdateCommands)
                 /\ file_branches' = file_branches
            ELSE \E rc \in NewFileStatuses, listed \in BOOLEAN :
                    LET new == handle_new_file("modified", p, rc, listed)
                    IN /\ file_branches' = new.file_branches
                       /\ handling' = new.handling
                       /\ handling'.ops[1] = "checkout main"]_vars

\* a modified file with a recorded branch was committed and pushed to it,
\* and in the same run a modified file without one got a branch
C27_Witness ==
  /\ handling.event_type = "modified"
  /\ handling.ops = UpdateCommands
  /\ handling.branch = file_branches[FileName(handling.path)]
  /\ \E q \in WatchedFiles : FileName(q) \notin DOMAIN file_branches

\* ---------------------------------------------------- claims on the frame

\* the failures parse_run_info ends with
ResolverFailures == Range(FailureOf)

\* C31: a pass in which parse_run_info fails changes none of current_branch,
\* session_files and pending_changes and issues no git or gh command:
\* neither its call of process_batch, nor the failing resolution, nor
\* anything after it.
C31_ResolverFailureNoSideEffects ==
  [][\A i \in Timers :
        /\ (pc[i] = "woke" /\ pc'[i] # "woke") =>
              UNCHANGED <<current_branch, session_files, pending_changes>>
        /\ (Parses(i) /\ pc'[i] = "raised" /\ out'[i].kind \in ResolverFailures) =>
              /\ UNCHANGED <<current_branch, session_files, pending_changes>>
              /\ UNCHANGED <<ops, requested, dirty, staged>>
              /\ ops[i] = <<>>
        /\ (pc[i] = "raised" /\ out[i].kind \in ResolverFailures) =>
              /\ pc'[i] = "raised"
              /\ ops'[i] = <<>>]_vars

\* a pass has failed to resolve its batch in a session that an earlier pass
\* began: the session and the batch are still there
C31_Witness ==
  \E i, j \in Timers :
     /\ i # j
     /\ pc[j] = "done" /\ out[j].kind = "Created" /\ current_branch = NewUniqueId(j)
     /\ pc[i] = "raised" /\ out[i].kind = "ManifestMissing"
     /\ ops[i] = <<>>
     /\ session_files # {}
     /\ pending_changes # {}

\* C32: a call of process_batch that finds pending_changes empty returns at
\* once: it issues no command, begins no session, leaves current_branch,
\* session_files and the repository as they are, and the pass does nothing
\* afterwards.
C32_EmptyBatchNoOp ==
  [][\A i \in Timers :
        /\ (pc[i] = "woke" /\ pc'[i] # "woke" /\ pending_changes = {}) =>
              /\ pc'[i] = "done"
              /\ out'[i].kind = "Empty"
              /\ UNCHANGED <<current_branch, session_files, pending_changes, timer>>
              /\ UNCHANGED <<ops, repo>>
              /\ ops[i] = <<>>
        /\ (pc[i] = "done" /\ out[i].kind = "Empty") =>
              /\ pc'[i] = "done"
              /\ ops'[i] = <<>>]_vars

\* a Timer has fired on a batch that another pass had already cleared, in a
\* session that pass began
C32_Witness ==
  \E i, j \in Timers :
     /\ i # j
     /\ pc[i] = "done" /\ out[i].kind = "Empty" /\ fires[i] = 1 /\ ops[i] = <<>>
     /\ pc[j] = "done" /\ out[j].kind = "Created"
     /\ current_branch = NewUniqueId(j)

\* ------------------------------------------------ claims on the CSV watcher

\* the file names of the watched tree that are no CSV files
OtherNames == {CsvName(p) : p \in {q \in CsvFiles : ~IsCsv(q)}}

\* C33: in the CSV watcher the git workflow of process_csv_file is begun at
\* most once for a file name, whatever created and moved events arrive: an
\* event for a name that is in processed_files issues nothing, also when
\* the first workflow failed, and an event for a file that is no CSV file
\* issues nothing.
C33_OncePerFileName ==
  [][/\ \A file_name \in DOMAIN workflow_runs' : workflow_runs'[file_name] <= 1
     /\ \A file_name \in OtherNames : file_name \notin DOMAIN workflow_runs'
     /\ handling'.ops # <<>> =>
           /\ IsCsv(handling'.path)
           /\ CsvName(handling'.path) \notin processed_files
     /\ processed_files \subseteq processed_files']_vars

\* the workflow has run once for the name x.csv, and the latest event, for
\* the file of that name in the other directory, was skipped
C33_Witness ==
  /\ handling.path = 2
  /\ handling.ops = <<>>
  /\ CsvName(2) \in processed_files
  /\ workflow_runs[CsvName(2)] = 1
  /\ CsvName(3) \notin processed_files

====
